---- MODULE Spec2Model ----
(***************************************************************************)
(* A model of the reborrow crate: the built-in implementations of          *)
(* Reborrow / ReborrowMut / IntoConst for references, Option and Result    *)
(* (reborrow/src/lib.rs), the implementations the derive macros generate   *)
(* for records (reborrow-derive/src/lib.rs), and the discipline of loans   *)
(* that the signatures of rb, rb_mut and into_const impose on a program    *)
(* that calls them.                                                        *)
(*                                                                         *)
(* A value is a record tagged by k:                                        *)
(*   [k |-> "int", n]              an i32                                  *)
(*   [k |-> "ref", mut, loc]       &T (mut = FALSE) or &mut T (mut = TRUE) *)
(*   [k |-> "none"], [k |-> "some", x]        Option<T>                    *)
(*   [k |-> "ok", x], [k |-> "err", x]        Result<T, E>                 *)
(*   [k |-> "struct", ty, vs]      a record of type ty, fields in order    *)
(* Every operation returns [out, calls]: its result and the log of the     *)
(* trait methods it invoked, each with the depth of the invocation.        *)
(***************************************************************************)
EXTENDS Integers, Sequences, FiniteSets, TLC

\* ------------------------------------------------------------------ bounds
NumLocs == 2
MaxVal == 1
MaxViews == 3
MaxAttrs == 2
MaxLifetimes == 2
MaxTypeParams == 1
MaxFields == 2

Loc == 1..NumLocs
Val == 0..MaxVal

\* mem and views are the state of a program that uses the crate; gen is the
\* state of one expansion of a derive macro.
VARIABLES mem, views, gen

vars == <<mem, views, gen>>

\* ------------------------------------------------------------------ values
I32(n) == [k |-> "int", n |-> n]
SharedRef(l) == [k |-> "ref", mut |-> FALSE, loc |-> l]
MutRef(l) == [k |-> "ref", mut |-> TRUE, loc |-> l]
None == [k |-> "none"]
Some(x) == [k |-> "some", x |-> x]
Ok(x) == [k |-> "ok", x |-> x]
Err(x) == [k |-> "err", x |-> x]
Struct(ty, vs) == [k |-> "struct", ty |-> ty, vs |-> vs]

\* The result of an operation that invokes no trait method.
Ret(v) == [out |-> v, calls |-> <<>>]
\* One invocation of the trait method op on the value v.
Invoke(op, v) == [op |-> op, on |-> v, d |-> 1]
\* The calls made inside an invoked method are one level deeper.
Nest(calls) == [i \in DOMAIN calls |-> [calls[i] EXCEPT !.d = @ + 1]]

RECURSIVE Flatten(_)
Flatten(ss) == IF ss = <<>> THEN <<>> ELSE Head(ss) \o Flatten(Tail(ss))

\* ------------------------------------------------------------ declarations
NoIdent == ""

Field(ident, reborrow) == [ident |-> ident, reborrow |-> reborrow]

\* example/src/main.rs: the records the derive macros are applied to.
I32RefMut ==
  [ident |-> "I32RefMut", derive |-> "ReborrowTraits", const_name |-> "I32Ref",
   shape |-> "named",
   fields |-> <<Field("i", FALSE), Field("j", TRUE), Field("k", TRUE)>>]

I32TupleRefMut ==
  [ident |-> "I32TupleRefMut", derive |-> "ReborrowTraits",
   const_name |-> "I32TupleRef", shape |-> "unnamed",
   fields |-> <<Field(NoIdent, FALSE), Field(NoIdent, TRUE), Field(NoIdent, TRUE)>>]

I32Ref ==
  [ident |-> "I32Ref", derive |-> "ReborrowCopyTraits", const_name |-> NoIdent,
   shape |-> "named",
   fields |-> <<Field("i", FALSE), Field("j", FALSE), Field("k", FALSE)>>]

I32TupleRef ==
  [ident |-> "I32TupleRef", derive |-> "ReborrowCopyTraits", const_name |-> NoIdent,
   shape |-> "unnamed",
   fields |-> <<Field(NoIdent, FALSE), Field(NoIdent, FALSE), Field(NoIdent, FALSE)>>]

\* reborrow/src/lib.rs, tests::custom_view_type: a hand-written view.
MyViewType ==
  [ident |-> "MyViewType", derive |-> "manual", const_name |-> NoIdent,
   shape |-> "named", fields |-> <<Field("r", FALSE)>>]

Decls == {I32RefMut, I32TupleRefMut, I32Ref, I32TupleRef, MyViewType}

Decl(ty) == CHOOSE d \in Decls : d.ident = ty

\* --------------------------------------------------- the derive macro
\* `self.#ident` and `self.#idx`, the two forms of a field expression.
SelfIdent(ident) == [kind |-> "ident", ident |-> ident]
SelfIndex(idx) == [kind |-> "index", index |-> idx]

\* reborrow_exprs with the into_const expression of a #[reborrow] field left
\* as the bare field expression.
reborrow_exprs_bare_into_const(idx, f) ==
  LET is_reborrowable == f.reborrow
      expr == IF f.ident # NoIdent THEN SelfIdent(f.ident) ELSE SelfIndex(idx)
  IN IF ~is_reborrowable
       THEN <<[call |-> "none", expr |-> expr],
              [call |-> "none", expr |-> expr],
              [call |-> "none", expr |-> expr]>>
       ELSE <<[call |-> "rb_mut", expr |-> expr],
              [call |-> "rb", expr |-> expr],
              [call |-> "none", expr |-> expr]>>

reborrow_exprs(idx, f) ==
  LET is_reborrowable == f.reborrow
      expr == IF f.ident # NoIdent THEN SelfIdent(f.ident) ELSE SelfIndex(idx)
  IN IF ~is_reborrowable
       THEN <<[call |-> "none", expr |-> expr],
              [call |-> "none", expr |-> expr],
              [call |-> "none", expr |-> expr]>>
       ELSE <<[call |-> "rb_mut", expr |-> expr],
              [call |-> "rb", expr |-> expr],
              [call |-> "into_const", expr |-> expr]>>

unzip3(iter) ==
  <<[i \in DOMAIN iter |-> iter[i][1]],
    [i \in DOMAIN iter |-> iter[i][2]],
    [i \in DOMAIN iter |-> iter[i][3]]>>

\* A construction `#ty:: #generics { #(#names: #args,)* }` (named),
\* `#ty:: #generics ( #(#args,)* )` (unnamed) or `#ty:: #generics` (unit).
Construct(ty, generics, shape, names, args) ==
  [ty |-> ty, generics |-> generics, shape |-> shape, names |-> names,
   args |-> args]

\* derive_reborrow with the rb expressions used for rb_mut in the
\* Fields::Unnamed arm.
derive_reborrow_unnamed_f1(input) ==
  LET name == input.ident
      const_name == input.const_name
      names == [i \in DOMAIN input.fields |-> input.fields[i].ident]
      f == unzip3([i \in DOMAIN input.fields |->
                     reborrow_exprs(i - 1, input.fields[i])])
  IN CASE input.shape = "named" ->
            [rb_mut |-> Construct(name, "target_ty_generics", "named", names, f[1]),
             rb |-> Construct(const_name, "target_ty_generics", "named", names, f[2]),
             into_const |->
               Construct(const_name, "ty_generics", "named", names, f[3])]
       [] input.shape = "unnamed" ->
            [rb_mut |-> Construct(name, "target_ty_generics", "unnamed", <<>>, f[2]),
             rb |-> Construct(const_name, "target_ty_generics", "unnamed", <<>>, f[2]),
             into_const |->
               Construct(const_name, "ty_generics", "unnamed", <<>>, f[3])]
       [] input.shape = "unit" ->
            [rb_mut |-> Construct(name, "target_ty_generics", "unit", <<>>, <<>>),
             rb |-> Construct(const_name, "target_ty_generics", "unit", <<>>, <<>>),
             into_const |->
               Construct(const_name, "target_ty_generics", "unit", <<>>, <<>>)]

\* The bodies of rb_mut, rb and into_const generated for a record.
derive_reborrow(input) ==
  LET name == input.ident
      const_name == input.const_name
      names == [i \in DOMAIN input.fields |-> input.fields[i].ident]
      f == unzip3([i \in DOMAIN input.fields |->
                     reborrow_exprs(i - 1, input.fields[i])])
  IN CASE input.shape = "named" ->
            [rb_mut |-> Construct(name, "target_ty_generics", "named", names, f[1]),
             rb |-> Construct(const_name, "target_ty_generics", "named", names, f[2]),
             into_const |->
               Construct(const_name, "ty_generics", "named", names, f[3])]
       [] input.shape = "unnamed" ->
            [rb_mut |-> Construct(name, "target_ty_generics", "unnamed", <<>>, f[1]),
             rb |-> Construct(const_name, "target_ty_generics", "unnamed", <<>>, f[2]),
             into_const |->
               Construct(const_name, "ty_generics", "unnamed", <<>>, f[3])]
       [] input.shape = "unit" ->
            [rb_mut |-> Construct(name, "target_ty_generics", "unit", <<>>, <<>>),
             rb |-> Construct(const_name, "target_ty_generics", "unit", <<>>, <<>>),
             into_const |->
               Construct(const_name, "target_ty_generics", "unit", <<>>, <<>>)]

\* The position of the field a field expression names, in a record of type ty.
FieldIndex(ty, expr) ==
  IF expr.kind = "ident"
    THEN CHOOSE p \in DOMAIN Decl(ty).fields : Decl(ty).fields[p].ident = expr.ident
    ELSE expr.index + 1

\* ------------------------------------------------- the trait methods
\* <T as Trait>::op(self): the implementation of the trait of op for the
\* type of self, resolved below.
RECURSIVE Call(_, _)

\* rb for &'a T returning a mutable reference.
ref_rb_as_mut(self) == Ret(MutRef(self.loc))
\* rb_mut for &'a T returning a mutable reference, as rb_mut for &'a mut T does.
ref_rb_mut_gains(self) == Ret(MutRef(self.loc))
\* rb_mut for &'a mut T returning a shared reference, as rb does.
mut_rb_mut_shared(self) == Ret(SharedRef(self.loc))

\* impl Reborrow / ReborrowMut / IntoConst for &'a T
ref_rb(self) == Ret(SharedRef(self.loc))
ref_rb_mut(self) == Ret(SharedRef(self.loc))
ref_into_const(self) == Ret(self)

\* impl Reborrow / ReborrowMut / IntoConst for &'a mut T
mut_rb(self) == Ret(SharedRef(self.loc))
mut_rb_mut(self) == Ret(MutRef(self.loc))
mut_into_const(self) == Ret(SharedRef(self.loc))

\* rb for Option<T> narrowing the held value twice.
Option_rb_twice(self) ==
  IF self.k = "none" THEN Ret(None)
  ELSE LET r == Call("rb", self.x)
           q == Call("rb", r.out)
       IN [out |-> Some(q.out),
           calls |-> <<Invoke("rb", self.x)>> \o Nest(r.calls)
                       \o <<Invoke("rb", r.out)>> \o Nest(q.calls)]

\* rb_mut for Option<T> with the Some arm yielding None.
Option_rb_mut_drops(self) ==
  IF self.k = "none" THEN Ret(None)
  ELSE LET r == Call("rb_mut", self.x)
       IN [out |-> None, calls |-> <<Invoke("rb_mut", self.x)>> \o Nest(r.calls)]

\* impl Reborrow / ReborrowMut / IntoConst for Option<T>
Option_rb(self) ==
  IF self.k = "none" THEN Ret(None)
  ELSE LET r == Call("rb", self.x)
       IN [out |-> Some(r.out), calls |-> <<Invoke("rb", self.x)>> \o Nest(r.calls)]

Option_rb_mut(self) ==
  IF self.k = "none" THEN Ret(None)
  ELSE LET r == Call("rb_mut", self.x)
       IN [out |-> Some(r.out), calls |-> <<Invoke("rb_mut", self.x)>> \o Nest(r.calls)]

Option_into_const(self) ==
  IF self.k = "none" THEN Ret(None)
  ELSE LET r == Call("into_const", self.x)
       IN [out |-> Some(r.out),
           calls |-> <<Invoke("into_const", self.x)>> \o Nest(r.calls)]

\* impl Reborrow / ReborrowMut / IntoConst for Result<T, E>
Result_rb(self) ==
  IF self.k = "ok"
    THEN LET r == Call("rb", self.x)
         IN [out |-> Ok(r.out), calls |-> <<Invoke("rb", self.x)>> \o Nest(r.calls)]
    ELSE LET r == Call("rb", self.x)
         IN [out |-> Err(r.out), calls |-> <<Invoke("rb", self.x)>> \o Nest(r.calls)]

Result_rb_mut(self) ==
  IF self.k = "ok"
    THEN LET r == Call("rb_mut", self.x)
         IN [out |-> Ok(r.out),
             calls |-> <<Invoke("rb_mut", self.x)>> \o Nest(r.calls)]
    ELSE LET r == Call("rb_mut", self.x)
         IN [out |-> Err(r.out),
             calls |-> <<Invoke("rb_mut", self.x)>> \o Nest(r.calls)]

Result_into_const(self) ==
  IF self.k = "ok"
    THEN LET r == Call("into_const", self.x)
         IN [out |-> Ok(r.out),
             calls |-> <<Invoke("into_const", self.x)>> \o Nest(r.calls)]
    ELSE LET r == Call("into_const", self.x)
         IN [out |-> Err(r.out),
             calls |-> <<Invoke("into_const", self.x)>> \o Nest(r.calls)]

\* The value of one generated field expression, evaluated on self.
EvalExpr(e, self) ==
  LET field == self.vs[FieldIndex(self.ty, e.expr)]
  IN CASE e.call = "none" -> Ret(field)
       [] e.call = "rb_mut" ->
            LET r == Call("rb_mut", field)
            IN [out |-> r.out, calls |-> <<Invoke("rb_mut", field)>> \o Nest(r.calls)]
       [] e.call = "rb" ->
            LET r == Call("rb", field)
            IN [out |-> r.out, calls |-> <<Invoke("rb", field)>> \o Nest(r.calls)]
       [] e.call = "into_const" ->
            LET r == Call("into_const", field)
            IN [out |-> r.out,
                calls |-> <<Invoke("into_const", field)>> \o Nest(r.calls)]

\* The value of a generated construction, evaluated on self: a named
\* construction initialises the field of each name, a positional one the
\* fields in order; the arguments are evaluated in the order written.
EvalConstruct(c, self) ==
  LET a == [i \in DOMAIN c.args |-> EvalExpr(c.args[i], self)]
      target == Decl(c.ty).fields
      arg(p) == IF c.shape = "named"
                  THEN CHOOSE i \in DOMAIN c.names : c.names[i] = target[p].ident
                  ELSE p
  IN [out |-> Struct(c.ty, [p \in DOMAIN target |-> a[arg(p)].out]),
      calls |-> Flatten([i \in DOMAIN a |-> a[i].calls])]

\* The implementations derive_reborrow emits.
derived_rb_mut(self) == EvalConstruct(derive_reborrow(Decl(self.ty)).rb_mut, self)
derived_rb(self) == EvalConstruct(derive_reborrow(Decl(self.ty)).rb, self)
derived_into_const(self) ==
  EvalConstruct(derive_reborrow(Decl(self.ty)).into_const, self)

\* The implementations derive_reborrow_copy emits: `*self`, or `self`.
copy_rb_mut(self) == Ret(self)
copy_rb(self) == Ret(self)
copy_into_const(self) == Ret(self)
copy_as_generalized_mut(self) == Ret(self)
copy_as_generalized_ref(self) == Ret(self)

\* The adapters derive_reborrow emits:
\* `<Self as ::reborrow::ReborrowMut>::rb_mut(self)` and
\* `<Self as ::reborrow::Reborrow>::rb(self)`.
derived_as_generalized_mut(self) ==
  LET r == Call("rb_mut", self)
  IN [out |-> r.out, calls |-> <<Invoke("rb_mut", self)>> \o Nest(r.calls)]
derived_as_generalized_ref(self) ==
  LET r == Call("rb", self)
  IN [out |-> r.out, calls |-> <<Invoke("rb", self)>> \o Nest(r.calls)]

\* tests::custom_view_type: `MyViewType { r: self.r }`.
MyViewType_rb_mut(self) == Ret(Struct("MyViewType", <<MutRef(self.vs[1].loc)>>))

\* Method resolution: the implementation of each trait for the type of self.
Call(op, self) ==
  CASE self.k = "ref" /\ ~self.mut ->
         (CASE op = "rb" -> ref_rb(self)
           [] op = "rb_mut" -> ref_rb_mut(self)
           [] op = "into_const" -> ref_into_const(self))
    [] self.k = "ref" /\ self.mut ->
         (CASE op = "rb" -> mut_rb(self)
           [] op = "rb_mut" -> mut_rb_mut(self)
           [] op = "into_const" -> mut_into_const(self))
    [] self.k \in {"none", "some"} ->
         (CASE op = "rb" -> Option_rb(self)
           [] op = "rb_mut" -> Option_rb_mut(self)
           [] op = "into_const" -> Option_into_const(self))
    [] self.k \in {"ok", "err"} ->
         (CASE op = "rb" -> Result_rb(self)
           [] op = "rb_mut" -> Result_rb_mut(self)
           [] op = "into_const" -> Result_into_const(self))
    [] self.k = "struct" /\ Decl(self.ty).derive = "ReborrowTraits" ->
         (CASE op = "rb" -> derived_rb(self)
           [] op = "rb_mut" -> derived_rb_mut(self)
           [] op = "into_const" -> derived_into_const(self)
           [] op = "as_generalized_mut" -> derived_as_generalized_mut(self)
           [] op = "as_generalized_ref" -> derived_as_generalized_ref(self))
    [] self.k = "struct" /\ Decl(self.ty).derive = "ReborrowCopyTraits" ->
         (CASE op = "rb" -> copy_rb(self)
           [] op = "rb_mut" -> copy_rb_mut(self)
           [] op = "into_const" -> copy_into_const(self)
           [] op = "as_generalized_mut" -> copy_as_generalized_mut(self)
           [] op = "as_generalized_ref" -> copy_as_generalized_ref(self))
    [] self.k = "struct" /\ Decl(self.ty).derive = "manual" ->
         (CASE op = "rb_mut" -> MyViewType_rb_mut(self))

rb(self) == Call("rb", self)
rb_mut(self) == Call("rb_mut", self)
into_const(self) == Call("into_const", self)

\* The methods of Reborrow, ReborrowMut and IntoConst, and the adapters
\* the derive macros add to them.
Contract == {"rb", "rb_mut", "into_const"}
Adapters == {"as_generalized_mut", "as_generalized_ref"}

\* Whether the type of v implements the trait of op.
RECURSIVE Implements(_, _)
Implements(op, v) ==
  CASE v.k = "int" -> FALSE
    [] v.k \in {"ref", "none"} -> op \in Contract
    [] v.k \in {"some", "ok", "err"} -> op \in Contract /\ Implements(op, v.x)
    [] v.k = "struct" ->
         \/ Decl(v.ty).derive \in {"ReborrowTraits", "ReborrowCopyTraits"}
         \/ Decl(v.ty).derive = "manual" /\ op = "rb_mut"

RECURSIVE IsCopy(_)
\* derive_reborrow_copy without its `impl Copy`: no record is Copy.
IsCopy_no_record(v) ==
  CASE v.k = "int" -> TRUE
    [] v.k = "ref" -> ~v.mut
    [] v.k = "none" -> FALSE
    [] v.k \in {"some", "ok", "err"} -> IsCopy(v.x)
    [] v.k = "struct" -> FALSE

\* Whether the type of v is Copy: i32, &T, a container of Copy values, and
\* the records derive_reborrow_copy implements Copy for.
IsCopy(v) ==
  CASE v.k = "int" -> TRUE
    [] v.k = "ref" -> ~v.mut
    [] v.k = "none" -> FALSE
    [] v.k \in {"some", "ok", "err"} -> IsCopy(v.x)
    [] v.k = "struct" -> Decl(v.ty).derive = "ReborrowCopyTraits"

\* The references a value holds, as [mut, loc].
RECURSIVE Refs(_)
Refs(v) ==
  CASE v.k = "int" -> {}
    [] v.k = "ref" -> {[mut |-> v.mut, loc |-> v.loc]}
    [] v.k = "none" -> {}
    [] v.k \in {"some", "ok", "err"} -> Refs(v.x)
    [] v.k = "struct" -> UNION {Refs(v.vs[p]) : p \in DOMAIN v.vs}

MutLocs(v) == {r.loc : r \in {q \in Refs(v) : q.mut}}
Locs(v) == {r.loc : r \in Refs(v)}

\* ------------------------------------------------ lifetimes and loans
\* The lifetime of the Target of each method, given the lifetime 'short of
\* the borrow of the receiver and the receiver's own lifetime 'a.
\* The Target of rb_mut at the receiver's own lifetime, not the borrow's.
rb_mut_Target_unshortened(short, a) == a

rb_Target(short, a) == short
rb_mut_Target(short, a) == short
into_const_Target(short, a) == a

Target(op, short, a) ==
  CASE op = "rb" -> rb_Target(short, a)
    [] op = "rb_mut" -> rb_mut_Target(short, a)
    [] op = "into_const" -> into_const_Target(short, a)
    [] op = "as_generalized_mut" -> rb_mut_Target(short, a)
    [] op = "as_generalized_ref" -> rb_Target(short, a)

\* rb_mut taking &'short self.
Receiver_rb_mut_shared(op) ==
  CASE op = "rb" -> "shared"
    [] op = "rb_mut" -> "shared"
    [] op = "into_const" -> "move"

\* rb taking self by value.
Receiver_rb_by_value(op) ==
  CASE op = "rb" -> "move"
    [] op = "rb_mut" -> "mut"
    [] op = "into_const" -> "move"

\* How each method takes its receiver: &'short self, &'short mut self, self.
Receiver(op) ==
  CASE op = "rb" -> "shared"
    [] op = "rb_mut" -> "mut"
    [] op = "into_const" -> "move"
    [] op = "as_generalized_mut" -> "mut"
    [] op = "as_generalized_ref" -> "shared"

\* A view is a value in a program that uses the crate: views[1] is owned by
\* the program, every other view is the Target of a call on views[from].
\* The call that made view w borrowed its receiver for the fresh lifetime w.
Borrowed(w) ==
  views[w].how # "own" /\ Receiver(views[w].how) \in {"shared", "mut"}

\* The lifetimes that outlive lifetime s (`Self: 'short`), s included.
RECURSIVE Outlive(_)
Outlive(s) ==
  IF views[s].from = 0 THEN {s}
  ELSE {s} \cup Outlive(views[views[s].from].lt)

\* The loan made by the call that returned w is live while a live view has
\* a lifetime that the loan's lifetime outlives.
LoanLive(w) ==
  /\ Borrowed(w)
  /\ \E x \in DOMAIN views : views[x].alive /\ w \in Outlive(views[x].lt)

Loans(v) == {w \in DOMAIN views : views[w].from = v /\ LoanLive(w)}

Readable(v) ==
  /\ views[v].alive
  /\ \A w \in Loans(v) : Receiver(views[w].how) # "mut"

Writable(v) == views[v].alive /\ Loans(v) = {}

\* Whether v may be the receiver of a method that takes it in the given way:
\* a shared borrow needs no live mutable loan, a mutable borrow and a move
\* need no live loan at all; a Copy value is copied, not moved.
Usable(v, receiver) ==
  CASE receiver = "shared" -> Readable(v)
    [] receiver = "mut" -> Writable(v)
    [] receiver = "move" ->
         IF IsCopy(views[v].val) THEN Readable(v) ELSE Writable(v)

\* ------------------------------------------------------------ the program
\* Two mutable references of one value never refer to the same memory
\* (locations are interchangeable: the pairs are taken in increasing order).
Disjoint == {jk \in Loc \X Loc : jk[1] < jk[2]}

RootValues ==
  {SharedRef(l) : l \in Loc} \cup {MutRef(l) : l \in Loc}
  \cup {None}
  \cup {Some(SharedRef(l)) : l \in Loc} \cup {Some(MutRef(l)) : l \in Loc}
  \cup {Some(Struct("MyViewType", <<MutRef(l)>>)) : l \in Loc}
  \cup {Ok(MutRef(l)) : l \in Loc} \cup {Err(SharedRef(l)) : l \in Loc}
  \cup {Err(MutRef(l)) : l \in Loc} \cup {Some(Ok(MutRef(l))) : l \in Loc}
  \cup {Struct(ty, <<I32(n), MutRef(jk[1]), MutRef(jk[2])>>) :
          ty \in {"I32RefMut", "I32TupleRefMut"}, n \in Val, jk \in Disjoint}
  \cup {Some(Struct("I32RefMut", <<I32(n), MutRef(jk[1]), MutRef(jk[2])>>)) :
          n \in Val, jk \in Disjoint}

View(val, lt, from, how, calls) ==
  [val |-> val, lt |-> lt, from |-> from, how |-> how, calls |-> calls,
   alive |-> TRUE]

\* No expansion is under way while the program runs.
NoGen == [pc |-> "compiled"]

Init ==
  /\ mem = [l \in Loc |-> 0]
  /\ \E r \in RootValues : views = <<View(r, 1, 0, "own", <<>>)>>
  /\ gen = NoGen

\* let w = v.op(); the receiver is borrowed for the fresh lifetime w, or
\* moved (when it is not Copy), as the signature of op says.
CallStep(op, v) ==
  /\ Len(views) < MaxViews
  /\ Implements(op, views[v].val)
  /\ Usable(v, Receiver(op))
  /\ LET r == Call(op, views[v].val)
         w == Len(views) + 1
         after == IF Receiver(op) = "move"
                    THEN [views EXCEPT ![v].alive = IsCopy(views[v].val)]
                    ELSE views
     IN views' = Append(after,
                   View(r.out, Target(op, w, views[v].lt), v, op, r.calls))
  /\ UNCHANGED <<mem, gen>>

RbCall(v) == CallStep("rb", v)
RbMutCall(v) == CallStep("rb_mut", v)
IntoConstCall(v) == CallStep("into_const", v)

\* *r = n; through a mutable reference r that v holds.
Write(v, l, n) ==
  /\ Writable(v)
  /\ l \in MutLocs(views[v].val)
  /\ mem' = [mem EXCEPT ![l] = n]
  /\ UNCHANGED <<views, gen>>

\* drop(v); or the end of the scope of v.
EndView(v) ==
  /\ Writable(v)
  /\ views' = [views EXCEPT ![v].alive = FALSE]
  /\ UNCHANGED <<mem, gen>>

Rb == \E v \in DOMAIN views : RbCall(v)
RbMut == \E v \in DOMAIN views : RbMutCall(v)
IntoConst == \E v \in DOMAIN views : IntoConstCall(v)
WriteThrough == \E v \in DOMAIN views, l \in Loc, n \in Val : Write(v, l, n)
End == \E v \in DOMAIN views : EndView(v)

Next == Rb \/ RbMut \/ IntoConst \/ WriteThrough \/ End

Spec == Init /\ [][Next]_vars

\* ------------------------------------ a program over the derived records
\* example/src/main.rs: the records of mod shared, which hold shared
\* references that may refer to the same memory, and their mutable
\* counterparts.
RecordValues ==
  {Struct(ty, <<I32(n), SharedRef(j), SharedRef(k)>>) :
     ty \in {"I32Ref", "I32TupleRef"}, n \in Val, j \in Loc, k \in Loc}
  \cup {Struct(ty, <<I32(n), MutRef(jk[1]), MutRef(jk[2])>>) :
          ty \in {"I32RefMut", "I32TupleRefMut"}, n \in Val, jk \in Disjoint}

RecordInit ==
  /\ mem = [l \in Loc |-> 0]
  /\ \E r \in RecordValues : views = <<View(r, 1, 0, "own", <<>>)>>
  /\ gen = NoGen

AsGeneralizedMutCall(v) == CallStep("as_generalized_mut", v)
AsGeneralizedRefCall(v) == CallStep("as_generalized_ref", v)

AsGeneralizedMut == \E v \in DOMAIN views : AsGeneralizedMutCall(v)
AsGeneralizedRef == \E v \in DOMAIN views : AsGeneralizedRefCall(v)

\* main calls the methods and lets their results go out of scope; it writes
\* through none of them.
RecordNext ==
  Rb \/ RbMut \/ IntoConst \/ AsGeneralizedMut \/ AsGeneralizedRef \/ End

RecordSpec == RecordInit /\ [][RecordNext]_vars

\* --------------------------------------- one expansion of a derive macro
\* An attribute #[ident tokens]; tokens are `( elem )` or anything else.
Attr(ident, tokens) == [ident |-> ident, tokens |-> tokens]
Paren(elem) == [paren |-> TRUE, elem |-> elem]
NoTokens == [paren |-> FALSE, elem |-> NoIdent]

\* #[Const(RConst)], a #[Const] without the parenthesised type, #[repr(C)].
Attrs == {Attr("Const", Paren("RConst")), Attr("Const", NoTokens),
          Attr("repr", Paren("C"))}

\* A generic parameter; the lifetime numbered 0 is '__reborrow_lifetime.
LifetimeDef(n) == [kind |-> "lifetime", n |-> n]
TypeParam(n) == [kind |-> "type", n |-> n]
reborrowed_lifetime == LifetimeDef(0)

\* <'a, 'b, .., T, ..>: lifetime parameters are declared before the others.
Generics ==
  {[i \in 1..(n + m) |-> IF i <= n THEN LifetimeDef(i) ELSE TypeParam(i - n)] :
     n \in 0..MaxLifetimes, m \in 0..MaxTypeParams}

FieldIdents == <<"i", "j", "k", "l">>

SeqsUpTo(S, n) == UNION {[1..len -> S] : len \in 0..n}

\* syn::Data: a struct with named, unnamed or no fields, an enum, a union.
Datas ==
  {[kind |-> "struct", shape |-> "named",
    fields |-> [i \in DOMAIN r |-> Field(FieldIdents[i], r[i])]] :
     r \in SeqsUpTo(BOOLEAN, MaxFields)}
  \cup {[kind |-> "struct", shape |-> "unnamed",
         fields |-> [i \in DOMAIN r |-> Field(NoIdent, r[i])]] :
          r \in SeqsUpTo(BOOLEAN, MaxFields)}
  \cup {[kind |-> "struct", shape |-> "unit", fields |-> <<>>]}
  \cup {[kind |-> k, shape |-> NoIdent, fields |-> <<>>] : k \in {"enum", "union"}}

\* The DeriveInput of `#[derive(macro)] #(#attrs)* struct R #generics ..`.
DeriveInputs ==
  [macro : {"ReborrowTraits", "ReborrowCopyTraits"},
   attrs : SeqsUpTo(Attrs, MaxAttrs), ident : {"R"},
   generics : Generics, data : Datas]

\* input.attrs.iter().find(..): the position of the first attribute whose
\* path begins with `Const`, 0 when there is none.
find_Const(attrs) ==
  IF \E i \in DOMAIN attrs : attrs[i].ident = "Const"
    THEN CHOOSE i \in DOMAIN attrs :
           /\ attrs[i].ident = "Const"
           /\ \A j \in 1..(i - 1) : attrs[j].ident # "Const"
    ELSE 0

\* What split_for_impl prints of a parameter list: lifetimes first, nothing
\* at all (no angle brackets) for an empty list.
SplitForImpl(generics) ==
  LET IsLifetime(p) == p.kind = "lifetime"
      IsOther(p) == p.kind # "lifetime"
  IN SelectSeq(generics, IsLifetime) \o SelectSeq(generics, IsOther)

\* target_ty_generics: every lifetime parameter replaced by the reborrowed one.
TargetTyGenerics(generics) ==
  SplitForImpl([i \in DOMAIN generics |->
                  IF generics[i].kind = "lifetime" THEN reborrowed_lifetime
                  ELSE generics[i]])

\* impl_generics: the reborrowed lifetime inserted in front.
ImplGenerics(generics) == SplitForImpl(<<reborrowed_lifetime>> \o generics)

\* `#ty #generics` in a type and `#ty:: #generics` in an expression: the
\* two colons are written whether or not any generics follow them.
Ty(ty, generics) == [ty |-> ty, colons |-> FALSE, args |-> generics]
Path(ty, generics) == [ty |-> ty, colons |-> TRUE, args |-> generics]

\* The bodies of the generated methods.
ConstructExpr(c, generics) ==
  [expr |-> "construct", path |-> Path(c.ty, generics), shape |-> c.shape,
   names |-> c.names, args |-> c.args]
SelfExpr == [expr |-> "self"]
DerefSelfExpr == [expr |-> "*self"]
CallExpr(method) == [expr |-> "call", method |-> method]

Impl(trait, generics, for, target, body) ==
  [trait |-> trait, generics |-> generics, for |-> for, target |-> target,
   body |-> body]
NoTarget == Ty(NoIdent, <<>>)

\* quote!: the generics a construction names, interpolated.
Quote(c, ty_generics, target_ty_generics) ==
  ConstructExpr(c, IF c.generics = "target_ty_generics"
                     THEN target_ty_generics ELSE ty_generics)

\* The implementations derive_reborrow emits.
derive_reborrow_expanded(name, const_name, generics, bodies) ==
  LET target_ty_generics == TargetTyGenerics(generics)
      impl_generics == ImplGenerics(generics)
      orig_impl_generics == SplitForImpl(generics)
      ty_generics == SplitForImpl(generics)
      self_ty == Ty(name, ty_generics)
  IN <<Impl("IntoConst", orig_impl_generics, self_ty,
            Ty(const_name, ty_generics),
            Quote(bodies.into_const, ty_generics, target_ty_generics)),
       Impl("ReborrowMut", impl_generics, self_ty,
            Ty(name, target_ty_generics),
            Quote(bodies.rb_mut, ty_generics, target_ty_generics)),
       Impl("Reborrow", impl_generics, self_ty,
            Ty(const_name, target_ty_generics),
            Quote(bodies.rb, ty_generics, target_ty_generics)),
       Impl("AsGeneralizedMut", impl_generics, self_ty, NoTarget,
            CallExpr("rb_mut")),
       Impl("AsGeneralizedRef", impl_generics, self_ty, NoTarget,
            CallExpr("rb"))>>

\* The implementations derive_reborrow_copy emits: neither the attributes
\* nor the data of the input are looked at.
derive_reborrow_copy(input) ==
  LET name == input.ident
      target_ty_generics == TargetTyGenerics(input.generics)
      impl_generics == ImplGenerics(input.generics)
      orig_impl_generics == SplitForImpl(input.generics)
      ty_generics == SplitForImpl(input.generics)
      self_ty == Ty(name, ty_generics)
  IN <<Impl("Copy", orig_impl_generics, self_ty, NoTarget, SelfExpr),
       Impl("Clone", orig_impl_generics, self_ty, NoTarget, DerefSelfExpr),
       Impl("IntoConst", orig_impl_generics, self_ty, Ty(name, ty_generics),
            SelfExpr),
       Impl("ReborrowMut", impl_generics, self_ty,
            Ty(name, target_ty_generics), DerefSelfExpr),
       Impl("Reborrow", impl_generics, self_ty,
            Ty(name, target_ty_generics), DerefSelfExpr),
       Impl("AsGeneralizedMut", impl_generics, self_ty, NoTarget,
            DerefSelfExpr),
       Impl("AsGeneralizedRef", impl_generics, self_ty, NoTarget,
            DerefSelfExpr)>>

ConstRequired == "Const reborrowed type must be specified."
\* The panic of Result::unwrap() on the Err of syn::parse2.
UnwrapFailed == "called Result::unwrap() on an Err value"
EnumsUnsupported == "reborrow-derive does not support enums."
UnionsUnsupported == "reborrow-derive does not support unions."

\* The macro has parsed its input and emitted nothing yet.
Parsed(input) ==
  [pc |-> "parsed", input |-> input, const_attr |-> 0, const_name |-> NoIdent,
   bodies |-> <<>>, expanded |-> <<>>, panic |-> NoIdent]

\* panic!: the expansion stops and whatever was built is dropped.
Panic(msg) == [gen EXCEPT !.pc = "panicked", !.panic = msg]

GenInit ==
  /\ mem = [l \in Loc |-> 0]
  /\ views = <<>>
  /\ \E input \in DeriveInputs : gen = Parsed(input)

\* derive_reborrow: the Const attribute is looked for first.
FindConst ==
  /\ gen.pc = "parsed"
  /\ gen.input.macro = "ReborrowTraits"
  /\ LET i == find_Const(gen.input.attrs)
     IN gen' = IF i = 0 THEN Panic(ConstRequired)
               ELSE [gen EXCEPT !.pc = "const_found", !.const_attr = i]
  /\ UNCHANGED <<mem, views>>

\* Its tokens are parsed as a parenthesised type, and unwrapped.
ParseConstName ==
  /\ gen.pc = "const_found"
  /\ LET tokens == gen.input.attrs[gen.const_attr].tokens
     IN gen' = IF ~tokens.paren THEN Panic(UnwrapFailed)
               ELSE [gen EXCEPT !.pc = "const_named", !.const_name = tokens.elem]
  /\ UNCHANGED <<mem, views>>

\* MatchData with an enum expanded as a record without fields.
MatchData_enum_as_unit ==
  /\ gen.pc = "const_named"
  /\ LET data == gen.input.data
     IN gen' = IF data.kind = "union" THEN Panic(UnionsUnsupported)
               ELSE [gen EXCEPT
                       !.pc = "matched",
                       !.bodies = derive_reborrow(
                         [ident |-> gen.input.ident,
                          const_name |-> gen.const_name,
                          shape |-> IF data.kind = "enum" THEN "unit"
                                    ELSE data.shape,
                          fields |-> data.fields])]
  /\ UNCHANGED <<mem, views>>

\* The data of the input is matched: the three bodies of a struct are built,
\* an enum or a union panics.
MatchData ==
  /\ gen.pc = "const_named"
  /\ LET data == gen.input.data
     IN gen' = CASE data.kind = "enum" -> Panic(EnumsUnsupported)
                 [] data.kind = "union" -> Panic(UnionsUnsupported)
                 [] data.kind = "struct" ->
                      [gen EXCEPT
                         !.pc = "matched",
                         !.bodies = derive_reborrow(
                           [ident |-> gen.input.ident,
                            const_name |-> gen.const_name,
                            shape |-> data.shape, fields |-> data.fields])]
  /\ UNCHANGED <<mem, views>>

\* The implementations are quoted around the bodies and returned.
Expand ==
  /\ gen.pc = "matched"
  /\ gen' = [gen EXCEPT
               !.pc = "expanded",
               !.expanded = derive_reborrow_expanded(
                 gen.input.ident, gen.const_name, gen.input.generics,
                 gen.bodies)]
  /\ UNCHANGED <<mem, views>>

\* derive_reborrow_copy: nothing is checked and nothing is matched.
ExpandCopy ==
  /\ gen.pc = "parsed"
  /\ gen.input.macro = "ReborrowCopyTraits"
  /\ gen' = [gen EXCEPT !.pc = "expanded",
                        !.expanded = derive_reborrow_copy(gen.input)]
  /\ UNCHANGED <<mem, views>>

GenNext ==
  FindConst \/ ParseConstName \/ MatchData \/ Expand \/ ExpandCopy

GenSpec == GenInit /\ [][GenNext]_vars

\* ------------------------------------------------------------- properties
\* The views a call returned, and the receiver of that call.
Made == {w \in DOMAIN views : views[w].from # 0}
Parent(w) == views[w].from

\* x is w, or was returned by a chain of calls that starts at w.
RECURSIVE Descends(_, _)
Descends(x, w) ==
  \/ x = w
  \/ views[x].from # 0 /\ Descends(views[x].from, w)

\* x is a, or was returned by a chain of rb_mut calls that starts at a.
RECURSIVE NarrowedMut(_, _)
NarrowedMut(x, a) ==
  \/ x = a
  \/ views[x].how = "rb_mut" /\ NarrowedMut(views[x].from, a)

\* Every statement of the program that uses v.
Access(v) ==
  \/ RbCall(v)
  \/ RbMutCall(v)
  \/ IntoConstCall(v)
  \/ \E l \in Loc, n \in Val : Write(v, l, n)
  \/ EndView(v)

\* Every view obtained by narrowing v, and everything made from it, has ended.
NarrowingsEnded(v) ==
  \A w \in Made :
    Parent(w) = v /\ views[w].how \in {"rb", "rb_mut"} =>
      \A x \in DOMAIN views : Descends(x, w) => ~views[x].alive

\* Nothing made from w, other than w itself, is alive.
OnlyLive(w) ==
  \A x \in DOMAIN views : x # w /\ Descends(x, w) => ~views[x].alive

\* A record that derive_reborrow generated the methods of.
Derived(v) == v.k = "struct" /\ Decl(v.ty).derive = "ReborrowTraits"

\* C1: while a view returned by rb_mut on v is alive, no statement can use v
\* (no rb, rb_mut, into_const, write or drop); once every view narrowed from
\* v has ended, v is accessible again and can be the receiver of rb_mut again.
C1_ExclusiveWhileNarrowed ==
  /\ \A w \in Made :
       views[w].alive /\ views[w].how = "rb_mut" => ~ENABLED Access(Parent(w))
  /\ \A v \in DOMAIN views :
       views[v].alive /\ NarrowingsEnded(v) =>
         Writable(v) /\ Usable(v, Receiver("rb_mut"))

\* Two successive o.rb_mut() calls, each view ended, then o dropped.
C1_Witness ==
  /\ Len(views) = 3
  /\ views[1].val.k = "some"
  /\ \A w \in {2, 3} :
       views[w].from = 1 /\ views[w].how = "rb_mut" /\ ~views[w].alive
  /\ ~views[1].alive

\* C2: the view rb_mut returns implements rb_mut itself; in a chain of nested
\* rb_mut narrowings only the innermost live view can be used, no outer view
\* can end before it, and ending the innermost view makes its receiver, and
\* no other view, accessible again.
C2_NestedNarrowing ==
  /\ [](\A w \in Made :
          views[w].how = "rb_mut" =>
            /\ Implements("rb_mut", views[w].val)
            /\ views[w].alive =>
                 \A a \in DOMAIN views :
                   a # w /\ NarrowedMut(w, a) => ~ENABLED Access(a))
  /\ [][\A w \in Made :
          EndView(w) /\ views[w].how = "rb_mut" /\ OnlyLive(w) =>
            /\ Writable(Parent(w))'
            /\ \A u \in DOMAIN views \ {w, Parent(w)} :
                 /\ Writable(u)' <=> Writable(u)
                 /\ Readable(u)' <=> Readable(u)]_vars

\* v0 -> v1 -> v2 by rb_mut; v2 has ended, v1 is usable again, v0 is not.
C2_Witness ==
  /\ Len(views) = 3
  /\ views[2].from = 1 /\ views[2].how = "rb_mut"
  /\ views[3].from = 2 /\ views[3].how = "rb_mut"
  /\ ~views[3].alive /\ Writable(2) /\ ~Readable(1)

\* C3: a call of rb changes neither its receiver nor any other view nor the
\* memory, and leaves the receiver readable; while a view rb returned is
\* alive its receiver stays alive and readable (so further rb calls are
\* allowed), and once the views have ended the receiver can be the receiver
\* of rb_mut and of into_const.
C3_RbKeepsReceiver ==
  /\ [](\A v \in DOMAIN views :
          /\ (\E w \in Made :
                Parent(w) = v /\ views[w].how = "rb" /\ views[w].alive)
               => Readable(v)
          /\ views[v].alive /\ NarrowingsEnded(v) =>
               Usable(v, Receiver("rb_mut")) /\ Usable(v, Receiver("into_const")))
  /\ [][\A v \in DOMAIN views :
          RbCall(v) =>
            /\ \A u \in DOMAIN views : views'[u] = views[u]
            /\ mem' = mem
            /\ Readable(v)']_vars

\* Two views returned by rb on the same record, alive together with it.
C3_Witness ==
  /\ Len(views) = 3
  /\ Derived(views[1].val)
  /\ \A w \in {2, 3} :
       views[w].from = 1 /\ views[w].how = "rb" /\ views[w].alive
  /\ views[1].alive

\* C4: into_const of a derived record yields the Const counterpart in which
\* field i is field i of the receiver when the field has no #[reborrow], and
\* into_const of field i of the receiver when it has.
C4_IntoConstFieldwise ==
  \A w \in Made :
    views[w].how = "into_const" /\ Derived(views[Parent(w)].val) =>
      LET v == views[Parent(w)].val
          d == Decl(v.ty)
          out == views[w].val
      IN /\ out.k = "struct"
         /\ out.ty = d.const_name
         /\ DOMAIN out.vs = DOMAIN d.fields
         /\ \A i \in DOMAIN d.fields :
              out.vs[i] = IF d.fields[i].reborrow
                            THEN into_const(v.vs[i]).out
                            ELSE v.vs[i]

C4_Witness ==
  \E w \in Made :
    /\ views[w].how = "into_const"
    /\ Derived(views[Parent(w)].val)
    /\ views[w].val.vs[1] = I32(1)
    /\ ~views[Parent(w)].alive

\* C5: on a derived record, rb_mut returns the same record type with the
\* fields without #[reborrow] unchanged and the others as mutable references
\* to the same memory; rb and into_const return the Const counterpart with
\* the same fields and shared references to the same memory; and a write
\* through a reference of the view rb_mut returned changes the memory that
\* the same field of the receiver refers to.
C5_SameMemory ==
  /\ [](\A w \in Made :
          Derived(views[Parent(w)].val) =>
            LET v == views[Parent(w)].val
                d == Decl(v.ty)
                out == views[w].val
            IN /\ out.k = "struct"
               /\ out.ty = IF views[w].how = "rb_mut" THEN v.ty ELSE d.const_name
               /\ DOMAIN out.vs = DOMAIN d.fields
               /\ \A i \in DOMAIN d.fields :
                    out.vs[i] =
                      IF ~d.fields[i].reborrow THEN v.vs[i]
                      ELSE IF views[w].how = "rb_mut" THEN MutRef(v.vs[i].loc)
                      ELSE SharedRef(v.vs[i].loc))
  /\ [][\A w \in Made, l \in Loc, n \in Val :
          /\ views[w].how = "rb_mut"
          /\ Derived(views[Parent(w)].val)
          /\ Write(w, l, n)
          => \A i \in DOMAIN views[w].val.vs :
               views[w].val.vs[i] = MutRef(l) =>
                 mem'[views[Parent(w)].val.vs[i].loc] = n]_vars

\* P{i: 1, j, k} was narrowed by rb_mut, field k written through the view,
\* the view ended, and the receiver is accessible with the written value.
C5_Witness ==
  /\ Len(views) = 2
  /\ views[1].val.k = "struct" /\ views[1].val.ty = "I32RefMut"
  /\ views[1].val.vs[1] = I32(1)
  /\ views[2].how = "rb_mut" /\ ~views[2].alive
  /\ Writable(1)
  /\ mem[views[1].val.vs[3].loc] = 1
  /\ mem[views[1].val.vs[2].loc] = 0

\* C6: rb applied to a view that rb returned yields the value of that view
\* (the two differ in lifetime only).
C6_RbIdempotent ==
  \A w \in Made :
    views[w].how = "rb" /\ views[Parent(w)].how = "rb" =>
      /\ views[w].val = views[Parent(w)].val
      /\ views[w].lt # views[Parent(w)].lt

C6_Witness ==
  \E w \in Made :
    /\ views[w].how = "rb" /\ views[Parent(w)].how = "rb"
    /\ views[1].val.k = "some"
    /\ views[1].val.x.k = "struct"
    /\ views[w].alive /\ views[Parent(w)].alive

\* C7: no method gives a view a mutable reference its receiver does not hold,
\* and every view refers to the memory its receiver refers to; rb and
\* into_const return no mutable reference; a shared reference yields itself
\* under all three methods; and whatever is made, by any chain of calls,
\* from a view without mutable references has none either.
C7_NeverGainsMutability ==
  \A w \in Made :
    LET v == views[Parent(w)].val
        out == views[w].val
    IN /\ MutLocs(out) \subseteq MutLocs(v)
       /\ Locs(out) = Locs(v)
       /\ views[w].how \in {"rb", "into_const"} => MutLocs(out) = {}
       /\ v.k = "ref" /\ ~v.mut => out = v
       /\ v.k = "ref" /\ v.mut /\ views[w].how \in {"rb", "into_const"} =>
            out = SharedRef(v.loc)
       /\ \A a \in DOMAIN views :
            Descends(w, a) /\ MutLocs(views[a].val) = {} => MutLocs(out) = {}

\* &mut T, then into_const, then rb_mut on the result: a shared reference.
C7_Witness ==
  /\ Len(views) = 3
  /\ views[1].val.k = "ref" /\ views[1].val.mut
  /\ views[2].how = "into_const" /\ views[2].from = 1
  /\ views[3].how = "rb_mut" /\ views[3].from = 2
  /\ views[3].val = SharedRef(views[1].val.loc)

\* C8: on Option and Result each method maps the held value with the same
\* method and keeps the variant: None to None, Some(x) to Some(op(x)),
\* Ok(v) to Ok(op(v)), Err(e) to Err(op(e)).
C8_VariantPreserving ==
  \A w \in Made :
    LET v == views[Parent(w)].val
        out == views[w].val
        op == views[w].how
    IN /\ v.k \in {"none", "some", "ok", "err"} => out.k = v.k
       /\ v.k = "none" => out = None
       /\ v.k = "some" => out = Some(Call(op, v.x).out)
       /\ v.k = "ok" => out = Ok(Call(op, v.x).out)
       /\ v.k = "err" => out = Err(Call(op, v.x).out)

C8_Witness ==
  \E w \in Made :
    /\ views[Parent(w)].val = Err(MutRef(1))
    /\ views[w].how = "into_const"
    /\ views[w].val = Err(SharedRef(1))

\* The calls a method made directly (not those made inside another call).
Direct(calls) == {i \in DOMAIN calls : calls[i].d = 1}

\* C9, as claimed: on None and on Err each method invokes no method of the
\* held value; on Some and on Ok it invokes exactly one.
C9_ErrShortCircuits ==
  \A w \in Made :
    LET v == views[Parent(w)].val
    IN /\ v.k \in {"none", "err"} => Cardinality(Direct(views[w].calls)) = 0
       /\ v.k \in {"some", "ok"} => Cardinality(Direct(views[w].calls)) = 1

\* C9, amended: on None each method invokes nothing at all; on Some, on Ok
\* and on Err it invokes exactly one method of the held value: the same
\* method, on the held value, first.
C9_RecursesOncePerPayload ==
  \A w \in Made :
    LET v == views[Parent(w)].val
        calls == views[w].calls
    IN /\ v.k = "none" => calls = <<>>
       /\ v.k \in {"some", "ok", "err"} =>
            /\ Cardinality(Direct(calls)) = 1
            /\ calls[1] = Invoke(views[w].how, v.x)

C9_Witness ==
  \E w \in Made :
    /\ views[Parent(w)].val.k = "err"
    /\ Len(views[w].calls) = 1
    /\ views[w].calls[1].op = "rb_mut"

\* The record with the same fields and policies in the other shape.
Twin(ty) ==
  CASE ty = "I32RefMut" -> "I32TupleRefMut"
    [] ty = "I32TupleRefMut" -> "I32RefMut"
    [] ty = "I32Ref" -> "I32TupleRef"
    [] ty = "I32TupleRef" -> "I32Ref"

\* C10: each method yields, on a record of one shape, the fields in order
\* (and the calls) it yields on the record of the other shape that holds the
\* same fields, and the result is of the twin of the other result's type.
C10_TupleLikeNamed ==
  \A w \in Made :
    LET v == views[Parent(w)].val
    IN v.k = "struct" /\ Decl(v.ty).derive # "manual" =>
         LET other == Call(views[w].how, Struct(Twin(v.ty), v.vs))
         IN /\ views[w].val.vs = other.out.vs
            /\ views[w].val.ty = Twin(other.out.ty)
            /\ views[w].calls = other.calls

C10_Witness ==
  \E w \in Made :
    /\ views[Parent(w)].val.k = "struct"
    /\ views[Parent(w)].val.ty = "I32TupleRefMut"
    /\ views[w].how = "rb_mut"
    /\ views[w].val = views[Parent(w)].val

\* ------------------------------------------------- claims on the generator
\* Whether the declaration carries a Const attribute, and whether the first
\* one it carries names its type in parentheses.
HasConst == \E i \in DOMAIN gen.input.attrs : gen.input.attrs[i].ident = "Const"
FirstConstNamesType ==
  \E i \in DOMAIN gen.input.attrs :
    /\ gen.input.attrs[i] = Attr("Const", Paren("RConst"))
    /\ \A j \in 1..(i - 1) : gen.input.attrs[j].ident # "Const"
Stopped == gen.pc \in {"panicked", "expanded"}

Body(trait) ==
  LET i == CHOOSE j \in DOMAIN gen.expanded : gen.expanded[j].trait = trait
  IN gen.expanded[i].body
\* The parameters of the record with each lifetime replaced by the
\* reborrowed lifetime, and the others left as they are, in order.
Narrowed ==
  [i \in DOMAIN gen.input.generics |->
     IF gen.input.generics[i].kind = "lifetime" THEN reborrowed_lifetime
     ELSE gen.input.generics[i]]
\* body is a well-formed construction of the type ty at the arguments args:
\* the two colons of a path are followed by arguments.
Constructs(body, ty, args) ==
  /\ body.expr = "construct"
  /\ body.path.ty = ty
  /\ body.path.args = args
  /\ body.path.colons => body.path.args # <<>>
  /\ body.shape = gen.input.data.shape

\* C12: for a struct of any of the three shapes, the rb_mut that
\* derive_reborrow emits constructs the record's own type and the rb it emits
\* constructs the Const type, both with every lifetime parameter replaced by
\* the reborrowed lifetime and the other parameters unchanged in order, and
\* the into_const it emits constructs the Const type at the record's own
\* parameters.
C12_TargetTypes ==
  (gen.input.macro = "ReborrowTraits" /\ gen.pc = "expanded") =>
    /\ Constructs(Body("ReborrowMut"), gen.input.ident, Narrowed)
    /\ Constructs(Body("Reborrow"), gen.const_name, Narrowed)
    /\ Constructs(Body("IntoConst"), gen.const_name, gen.input.generics)

\* ------------------------------------------------- claims on the copy mode
\* A record that derive_reborrow_copy generated the methods of.
CopyMode(v) == v.k = "struct" /\ Decl(v.ty).derive = "ReborrowCopyTraits"

\* The declaration of the record ty handed to derive_reborrow instead, with
\* the record as its own Const type and no field marked #[reborrow].
PerField(ty) ==
  [ident |-> ty, derive |-> "ReborrowTraits", const_name |-> ty,
   shape |-> Decl(ty).shape,
   fields |-> [i \in DOMAIN Decl(ty).fields |->
                 Field(Decl(ty).fields[i].ident, FALSE)]]

\* What the methods derive_reborrow emits for PerField return; its adapters
\* return what its rb_mut and rb return.
PerFieldResult(op, self) ==
  LET bodies == derive_reborrow(PerField(self.ty))
  IN CASE op \in {"rb_mut", "as_generalized_mut"} ->
            EvalConstruct(bodies.rb_mut, self)
       [] op \in {"rb", "as_generalized_ref"} -> EvalConstruct(bodies.rb, self)
       [] op = "into_const" -> EvalConstruct(bodies.into_const, self)

\* The declaration of the record ty as derive_reborrow_copy receives it, its
\* fields marked #[reborrow] as flags says.
CopyInput(ty, flags) ==
  [macro |-> "ReborrowCopyTraits", attrs |-> <<>>, ident |-> ty,
   generics |-> <<LifetimeDef(1), LifetimeDef(2)>>,
   data |-> [kind |-> "struct", shape |-> Decl(ty).shape,
             fields |-> [i \in DOMAIN Decl(ty).fields |->
                           Field(Decl(ty).fields[i].ident, flags[i])]]]

\* Whatever fields are marked, every body the copy mode emits is `self` or
\* `*self`: no construction from field expressions, no call.
NoDispatch(ty) ==
  \A flags \in [DOMAIN Decl(ty).fields -> BOOLEAN] :
    LET e == derive_reborrow_copy(CopyInput(ty, flags))
    IN \A i \in DOMAIN e : e[i].body.expr \in {"self", "*self"}

\* Every view that borrowed v, and everything made from it, has ended.
BorrowsEnded(v) ==
  \A w \in Made :
    Parent(w) = v /\ Borrowed(w) =>
      \A x \in DOMAIN views : Descends(x, w) => ~views[x].alive

\* C13: on a record of the copy mode, a call of rb, rb_mut, into_const,
\* as_generalized_mut or as_generalized_ref returns the receiver itself (the
\* same type, every field equal) and invokes no trait method, whatever
\* fields are marked #[reborrow]; the result is what derive_reborrow would
\* return for the same record with no field marked (and, for the three trait
\* methods, with the same empty log of calls); the call changes neither the
\* receiver nor any other view nor the memory and leaves the receiver alive:
\* readable at once after rb, as_generalized_ref and into_const (into_const
\* adds no loan at all), and usable in every way as soon as the views that
\* borrowed it have ended.
C13_CopyModeDuplicates ==
  /\ [](\A v \in DOMAIN views :
          (CopyMode(views[v].val) /\ views[v].alive /\ BorrowsEnded(v)) =>
            \A op \in Contract \cup Adapters : Usable(v, Receiver(op)))
  /\ [][\A v \in DOMAIN views, op \in Contract \cup Adapters :
          (CopyMode(views[v].val) /\ CallStep(op, v)) =>
            LET self == views[v].val
                result == views'[Len(views')]
            IN /\ result.val = self
               /\ result.calls = <<>>
               /\ NoDispatch(self.ty)
               /\ result.val = PerFieldResult(op, self).out
               /\ op \in Contract =>
                    result.calls = PerFieldResult(op, self).calls
               /\ \A u \in DOMAIN views : views'[u] = views[u]
               /\ mem' = mem
               /\ views'[v].alive
               /\ Receiver(op) # "mut" => Readable(v)'
               /\ op = "into_const" => (Writable(v)' <=> Writable(v))]_vars

\* A copy-mode record after into_const and then rb_mut: the view rb_mut
\* returned has ended, the one into_const returned is still alive, and the
\* record can be written to, moved or borrowed again.
C13_Witness ==
  /\ Len(views) = 3
  /\ CopyMode(views[1].val)
  /\ views[2].from = 1 /\ views[2].how = "into_const" /\ views[2].alive
  /\ views[3].from = 1 /\ views[3].how = "rb_mut" /\ ~views[3].alive
  /\ views[3].val = views[1].val /\ views[2].val = views[1].val
  /\ views[1].alive /\ Writable(1)
====
